---- MODULE Spec2Model ----
(***************************************************************************)
(* Payment backend (src/server.js): two in-memory stores, paymentStatus    *)
(* (M-Pesa, keyed by CheckoutRequestID) and paypalPayments (PayPal, keyed  *)
(* by order id), and the HTTP handlers that write and read them.           *)
(*                                                                         *)
(* JavaScript values: a missing property is Undef; an optional timestamp   *)
(* is the empty tuple NoTime or the one-element tuple At(t).  An           *)
(* identifier is the tuple of its parts: a provider-issued id has one      *)
(* part, the template `PP${eventId}_${userId}_${Date.now()}` has four, and *)
(* the identifier undefined (NoId) has none.  A message is the tuple of    *)
(* the parts of its template string.                                       *)
(* A Map value is an object reference.  The M-Pesa handlers run to         *)
(* completion between get and set, so paymentStatus is modelled by value.  *)
(* The PayPal status poll keeps its reference across an await, so          *)
(* paypalPayments maps a key to an index of the object heap paypalObjs.    *)
(* A Map iterates in the order its keys were first set: mpesaKeys keeps    *)
(* that order for paymentStatus; for paypalPayments it is the order in     *)
(* which the order ids first appear in paypalObjs.                         *)
(***************************************************************************)
EXTENDS Integers, Sequences, FiniteSets, TLC

\* ------------------------------------------------------------ bounds
\* The clock (new Date()) takes the values 0..MaxClock.
MaxClock == 1
\* Requests the clients and the providers send in one run of Spec; a run of
\* SpecDeep has two more.  The budget also bounds the PayPal objects allocated
\* and the requests suspended on a provider call.
MaxOps == 2

\* ------------------------------------------------------------ values
Undef == "undefined"
NoTime == << >>
At(t) == << t >>

\* Provider-issued identifiers (CheckoutRequestID, PayPal order id).
Ids == { <<"id1">>, <<"id2">> }
NoId == << >>

\* MerchantRequestID the provider issues together with a CheckoutRequestID.
MerchantOf(k) == IF k = <<"id1">> THEN "mr1" ELSE "mr2"

\* x || ''
OrEmpty(x) == IF x = Undef THEN "" ELSE x

VARIABLES
    paymentStatus,   \* Map: CheckoutRequestID -> M-Pesa payment object
    mpesaKeys,       \* the keys of paymentStatus in insertion order
    paypalPayments,  \* Map: order id -> index of the payment object in paypalObjs
    paypalObjs,      \* the PayPal payment objects, in allocation order
    polls,           \* /paypal-payment-status requests suspended on getPaypalOrder
    captures,        \* /capture-paypal-order requests suspended on capturePaypalPayment
    now,             \* the clock read by new Date()
    left,            \* requests the environment may still send
    resp             \* the last HTTP response sent

vars == << paymentStatus, mpesaKeys, paypalPayments, paypalObjs, polls, captures, now, left, resp >>

stores == << paymentStatus, mpesaKeys, paypalPayments, paypalObjs >>

\* f with key k set to v (Map.prototype.set)
MapSet(f, k, v) == [x \in DOMAIN f \cup {k} |-> IF x = k THEN v ELSE f[x]]

NoResp == [ep |-> "none", code |-> 0, id |-> NoId]

Budget == left > 0

\* ------------------------------------------------------------ M-Pesa

\* req.body of /initiate-payment
MpesaRequests ==
    { [phone |-> "254700000001", amount |-> 500, accountReference |-> "acc1",
       eventId |-> "e1", userId |-> "u1"],
      [phone |-> "254700000002", amount |-> 300, accountReference |-> "acc2",
       eventId |-> Undef, userId |-> Undef] }

\* stkResponse.data of a 2xx answer; the provider may answer without ids.
StkResponses ==
    { [CheckoutRequestID |-> k, MerchantRequestID |-> MerchantOf(k)] : k \in Ids }
    \cup { [CheckoutRequestID |-> NoId, MerchantRequestID |-> Undef] }

\* the object stored at initiation
NewMpesaPayment(req, data, t) ==
    [ type |-> "mpesa",
      checkoutRequestID |-> data.CheckoutRequestID,
      merchantRequestID |-> data.MerchantRequestID,
      phone |-> req.phone,
      amount |-> req.amount,
      accountReference |-> req.accountReference,
      eventId |-> OrEmpty(req.eventId),
      userId |-> OrEmpty(req.userId),
      status |-> "pending",
      initiatedAt |-> At(t),
      completedAt |-> NoTime,
      error |-> Undef,
      mpesaReceiptNumber |-> Undef,
      transactionDate |-> Undef ]

\* the insertion order after the "Store payment in memory" block: a new key
\* goes last, a key already set keeps its place
KeysAfterSet(ps, keys, k) ==
    IF k # NoId /\ k \notin DOMAIN ps THEN Append(keys, k) ELSE keys

\* StoreMpesaPayment with the Map replaced by one holding the new payment only
StoreMpesaPayment_Replace(ps, req, data, t) ==
    IF data.CheckoutRequestID # NoId
    THEN MapSet(<< >>, data.CheckoutRequestID, NewMpesaPayment(req, data, t))
    ELSE ps

\* paymentStatus after the "Store payment in memory" block
StoreMpesaPayment(ps, req, data, t) ==
    IF data.CheckoutRequestID # NoId
    THEN MapSet(ps, data.CheckoutRequestID, NewMpesaPayment(req, data, t))
    ELSE ps

\* POST /initiate-payment, the provider answering 2xx with data
InitiatePaymentOk(req, data) ==
    /\ Budget
    /\ paymentStatus' = StoreMpesaPayment(paymentStatus, req, data, now)
    /\ mpesaKeys' = KeysAfterSet(paymentStatus, mpesaKeys, data.CheckoutRequestID)
    /\ resp' = [ep |-> "/initiate-payment", code |-> 200, id |-> data.CheckoutRequestID,
                success |-> TRUE, transactionId |-> data.CheckoutRequestID]
    /\ left' = left - 1
    /\ UNCHANGED << paypalPayments, paypalObjs, polls, captures, now >>

\* POST /initiate-payment, getMpesaAccessToken or the STK push throwing
InitiatePaymentFail ==
    /\ Budget
    /\ resp' = [ep |-> "/initiate-payment", code |-> 500, id |-> NoId,
                success |-> FALSE, transactionId |-> NoId]
    /\ left' = left - 1
    /\ UNCHANGED << paymentStatus, mpesaKeys, paypalPayments, paypalObjs, polls, captures, now >>

\* CallbackMetadata of an STK callback: absent, an Item array, or an Item that
\* is no array (forEach is then no function and the handler throws).
FullItems ==
    << [Name |-> "Amount", Value |-> 450],
       [Name |-> "MpesaReceiptNumber", Value |-> "R123"],
       [Name |-> "TransactionDate", Value |-> "20261103"],
       [Name |-> "PhoneNumber", Value |-> "254700000009"] >>

NoMeta == [present |-> FALSE, isArray |-> FALSE, Item |-> << >>]
Metadatas ==
    { NoMeta,
      [present |-> TRUE, isArray |-> TRUE, Item |-> FullItems],
      [present |-> TRUE, isArray |-> FALSE, Item |-> << >>] }

ResultCodes == {0, 1032}
ResultDescOf(c) ==
    IF c = 0 THEN "The service request is processed successfully."
    ELSE "Request cancelled by user"

\* req.body of /mpesa-callback: with or without Body.stkCallback
NoStkCallback ==
    [stk |-> FALSE, CheckoutRequestID |-> NoId, MerchantRequestID |-> Undef,
     ResultCode |-> 0, ResultDesc |-> Undef, CallbackMetadata |-> NoMeta]
StkCallbacks ==
    { [stk |-> TRUE, CheckoutRequestID |-> k, MerchantRequestID |-> m,
       ResultCode |-> c, ResultDesc |-> ResultDescOf(c), CallbackMetadata |-> md] :
         k \in Ids, m \in {"mr1"}, c \in ResultCodes, md \in Metadatas }
    \cup { NoStkCallback }

\* one step of callbackMetadata.Item.forEach
ApplyItem(payment, item) ==
    IF item.Name = "Amount" THEN [payment EXCEPT !.amount = item.Value]
    ELSE IF item.Name = "MpesaReceiptNumber"
         THEN [payment EXCEPT !.mpesaReceiptNumber = item.Value]
    ELSE IF item.Name = "TransactionDate"
         THEN [payment EXCEPT !.transactionDate = item.Value]
    ELSE IF item.Name = "PhoneNumber" THEN [payment EXCEPT !.phone = item.Value]
    ELSE payment

RECURSIVE ApplyItems(_, _)
ApplyItems(payment, items) ==
    IF items = << >> THEN payment
    ELSE ApplyItems(ApplyItem(payment, Head(items)), Tail(items))

\* the handler throws at Item.forEach: a success callback whose Item is no array
StkCallbackThrows(ps, cb) ==
    /\ cb.stk
    /\ cb.CheckoutRequestID \in DOMAIN ps
    /\ cb.ResultCode = 0
    /\ cb.CallbackMetadata.present
    /\ ~cb.CallbackMetadata.isArray

\* ApplyStkResult also writing the callback's MerchantRequestID over the
\* payment's checkoutRequestID
ApplyStkResult_Rekey(payment, cb, t) ==
    IF cb.ResultCode = 0
    THEN LET p1 == [payment EXCEPT !.status = "success", !.completedAt = At(t),
                                   !.checkoutRequestID = << cb.MerchantRequestID >>]
         IN  IF cb.CallbackMetadata.present /\ cb.CallbackMetadata.isArray
             THEN ApplyItems(p1, cb.CallbackMetadata.Item)
             ELSE p1
    ELSE [payment EXCEPT !.status = "failed", !.error = cb.ResultDesc,
                         !.completedAt = At(t),
                         !.checkoutRequestID = << cb.MerchantRequestID >>]

\* the payment object after the if (resultCode === 0) ... else ... block; the
\* assignments made before a throw stay, the object being the one in the Map
ApplyStkResult(payment, cb, t) ==
    IF cb.ResultCode = 0
    THEN LET p1 == [payment EXCEPT !.status = "success", !.completedAt = At(t)]
         IN  IF cb.CallbackMetadata.present /\ cb.CallbackMetadata.isArray
             THEN ApplyItems(p1, cb.CallbackMetadata.Item)
             ELSE p1
    ELSE [payment EXCEPT !.status = "failed", !.error = cb.ResultDesc,
                         !.completedAt = At(t)]

\* StkCallbackStore with an orphan callback creating a record
StkCallbackStore_Upsert(ps, cb, t) ==
    IF cb.stk
    THEN MapSet(ps, cb.CheckoutRequestID,
                ApplyStkResult(
                    IF cb.CheckoutRequestID \in DOMAIN ps
                    THEN ps[cb.CheckoutRequestID]
                    ELSE NewMpesaPayment(
                             [phone |-> Undef, amount |-> 0, accountReference |-> Undef,
                              eventId |-> Undef, userId |-> Undef],
                             [CheckoutRequestID |-> cb.CheckoutRequestID,
                              MerchantRequestID |-> cb.MerchantRequestID], t),
                    cb, t))
    ELSE ps

\* StkCallbackStore deleting the record of a failed payment
StkCallbackStore_Evict(ps, cb, t) ==
    IF cb.stk /\ cb.CheckoutRequestID \in DOMAIN ps
    THEN IF cb.ResultCode = 0
         THEN [ps EXCEPT ![cb.CheckoutRequestID] = ApplyStkResult(@, cb, t)]
         ELSE [k \in DOMAIN ps \ {cb.CheckoutRequestID} |-> ps[k]]
    ELSE ps

\* paymentStatus after the handler's "Update payment status" block
StkCallbackStore(ps, cb, t) ==
    IF cb.stk /\ cb.CheckoutRequestID \in DOMAIN ps
    THEN [ps EXCEPT ![cb.CheckoutRequestID] = ApplyStkResult(@, cb, t)]
    ELSE ps

\* the acknowledgment of /mpesa-callback: the same from the try and the catch
StkAck(ps, cb) ==
    IF StkCallbackThrows(ps, cb)
    THEN [ep |-> "/mpesa-callback", code |-> 200, id |-> cb.CheckoutRequestID,
          ResultCode |-> 0, ResultDesc |-> "Success", threw |-> TRUE]
    ELSE [ep |-> "/mpesa-callback", code |-> 200, id |-> cb.CheckoutRequestID,
          ResultCode |-> 0, ResultDesc |-> "Success", threw |-> FALSE]

\* POST /mpesa-callback
MpesaCallback(cb) ==
    /\ Budget
    /\ paymentStatus' = StkCallbackStore(paymentStatus, cb, now)
    /\ UNCHANGED mpesaKeys
    /\ resp' = StkAck(paymentStatus, cb)
    /\ left' = left - 1
    /\ UNCHANGED << paypalPayments, paypalObjs, polls, captures, now >>

\* ------------------------------------------------------------ PayPal

\* Map.prototype.get for paypalPayments: the object stored under key k
PaypalGet(pp, objs, k) == objs[pp[k]]

\* req.body of /create-paypal-order
PaypalRequests ==
    { [amount |-> 500, eventId |-> "e1", userId |-> "u1", username |-> "ann",
       email |-> "ann@example.com", selectedTeam |-> "red"],
      [amount |-> 300, eventId |-> Undef, userId |-> Undef, username |-> Undef,
       email |-> Undef, selectedTeam |-> Undef] }

\* (parseFloat(amount) / 130).toFixed(2), in cents
UsdAmount(amount) == (amount * 200 + 130) \div 260

\* `PP${eventId}_${userId}_${Date.now()}`
TransactionIdOf(req, t) == << "PP", req.eventId, req.userId, t >>

\* The order the provider answers with: its id, and whether any link or the
\* payment_source gives an approval URL.
PaypalOrders ==
    { [id |-> k, status |-> "PAYER_ACTION_REQUIRED", hasLink |-> l] :
         k \in Ids \cup {NoId}, l \in BOOLEAN }

\* the object stored at order creation
NewPaypalPayment(req, order, t0, t) ==
    [ type |-> "paypal",
      orderId |-> order.id,
      transactionId |-> TransactionIdOf(req, t0),
      amount |-> req.amount,
      usdAmount |-> UsdAmount(req.amount),
      currency |-> "USD",
      eventId |-> OrEmpty(req.eventId),
      userId |-> OrEmpty(req.userId),
      username |-> OrEmpty(req.username),
      email |-> OrEmpty(req.email),
      selectedTeam |-> req.selectedTeam,
      status |-> "created",
      created_at |-> At(t),
      paypalResponse |-> order.status,
      approved_at |-> NoTime,
      captured_at |-> NoTime,
      failed_at |-> NoTime,
      error |-> Undef,
      captureId |-> Undef,
      captureResponse |-> Undef ]

\* the approval URL search ends with a URL: a link, or one built from order.id
HasApprovalUrl(order) == order.hasLink \/ order.id # NoId

\* POST /create-paypal-order, createPaypalOrder answering with an order: the
\* transaction id was built at time t0, before the await; the object is stored
\* after it, and before the approval URL is looked for
CreatePaypalOrderOk(req, order, t0) ==
    /\ Budget
    /\ t0 \in 0..now
    /\ paypalObjs' = Append(paypalObjs, NewPaypalPayment(req, order, t0, now))
    /\ paypalPayments' = MapSet(paypalPayments, order.id, Len(paypalObjs) + 1)
    /\ resp' = IF HasApprovalUrl(order)
               THEN [ep |-> "/create-paypal-order", code |-> 200, id |-> order.id,
                     success |-> TRUE, transactionId |-> TransactionIdOf(req, t0),
                     status |-> order.status]
               ELSE [ep |-> "/create-paypal-order", code |-> 500, id |-> order.id,
                     success |-> FALSE, transactionId |-> NoId, status |-> Undef]
    /\ left' = left - 1
    /\ UNCHANGED << paymentStatus, mpesaKeys, polls, captures, now >>

\* POST /create-paypal-order, createPaypalOrder throwing
CreatePaypalOrderFail ==
    /\ Budget
    /\ resp' = [ep |-> "/create-paypal-order", code |-> 500, id |-> NoId,
                success |-> FALSE, transactionId |-> NoId, status |-> Undef]
    /\ left' = left - 1
    /\ UNCHANGED << paymentStatus, mpesaKeys, paypalPayments, paypalObjs, polls, captures, now >>

\* s without its i-th element
Remove(s, i) == SubSeq(s, 1, i - 1) \o SubSeq(s, i + 1, Len(s))

\* POST /capture-paypal-order up to the await: 404, or suspended on the capture
CaptureStart(orderId) ==
    /\ Budget
    /\ left' = left - 1
    /\ IF orderId \in DOMAIN paypalPayments
       THEN /\ captures' = Append(captures, [orderId |-> orderId])
            /\ UNCHANGED resp
       ELSE /\ resp' = [ep |-> "/capture-paypal-order", code |-> 404, id |-> orderId,
                        success |-> FALSE, status |-> Undef]
            /\ UNCHANGED captures
    /\ UNCHANGED << paymentStatus, mpesaKeys, paypalPayments, paypalObjs, polls, now >>

\* captureResult.status values
CaptureStatuses == {"COMPLETED", "PENDING"}

\* the payment object after the "Update payment status" block of the capture
ApplyCapture(payment, captureStatus, t) ==
    [payment EXCEPT
       !.status = IF captureStatus = "COMPLETED" THEN "completed" ELSE "captured",
       !.captured_at = At(t),
       !.captureResponse = captureStatus]

\* POST /capture-paypal-order from the await on, capturePaypalPayment answering
CaptureResumeOk(i, captureStatus) ==
    /\ i \in 1..Len(captures)
    /\ LET orderId == captures[i].orderId
           ref == paypalPayments[orderId]
           payment == ApplyCapture(paypalObjs[ref], captureStatus, now)
       IN  /\ paypalObjs' = [paypalObjs EXCEPT ![ref] = payment]
           /\ resp' = [ep |-> "/capture-paypal-order", code |-> 200, id |-> orderId,
                       success |-> TRUE, status |-> payment.status]
    /\ captures' = Remove(captures, i)
    /\ UNCHANGED << paymentStatus, mpesaKeys, paypalPayments, polls, now, left >>

\* POST /capture-paypal-order from the await on, capturePaypalPayment throwing
CaptureResumeFail(i) ==
    /\ i \in 1..Len(captures)
    /\ resp' = [ep |-> "/capture-paypal-order", code |-> 500, id |-> captures[i].orderId,
                success |-> FALSE, status |-> Undef]
    /\ captures' = Remove(captures, i)
    /\ UNCHANGED << paymentStatus, mpesaKeys, paypalPayments, paypalObjs, polls, now, left >>

\* the body of a /paypal-payment-status answer for the object payment; pulled:
\* getPaypalOrder was called; apiError: it threw and the inner catch logged it
PaypalStatusResp(orderId, payment, pulled, apiError) ==
    [ep |-> "/paypal-payment-status", code |-> 200, id |-> orderId,
     success |-> (payment.status = "completed"), status |-> payment.status,
     transactionId |-> payment.transactionId, payment |-> << payment >>,
     pulled |-> pulled, apiError |-> apiError]

\* the poll asks the provider: "If payment is not completed, check with PayPal API"
NeedsPull(payment) == payment.status # "completed"

\* GET /paypal-payment-status/:orderId up to the await: 404, the stored status,
\* or suspended on getPaypalOrder holding the object read from the Map
PaypalStatusHandler(orderId) ==
    /\ IF orderId \in DOMAIN paypalPayments
       THEN IF NeedsPull(PaypalGet(paypalPayments, paypalObjs, orderId))
            THEN /\ polls' = Append(polls, [orderId |-> orderId,
                                            payment |-> paypalPayments[orderId]])
                 /\ UNCHANGED resp
            ELSE /\ resp' = PaypalStatusResp(orderId,
                               PaypalGet(paypalPayments, paypalObjs, orderId), FALSE, FALSE)
                 /\ UNCHANGED polls
       ELSE /\ resp' = [ep |-> "/paypal-payment-status", code |-> 404, id |-> orderId,
                        success |-> FALSE, status |-> "not_found",
                        transactionId |-> NoId, payment |-> << >>, pulled |-> FALSE,
                        apiError |-> FALSE]
            /\ UNCHANGED polls
    /\ UNCHANGED << paymentStatus, mpesaKeys, paypalPayments, paypalObjs, captures, now >>

\* one GET /paypal-payment-status/:orderId request arriving
PollStart(orderId) ==
    /\ Budget
    /\ left' = left - 1
    /\ PaypalStatusHandler(orderId)

\* orderDetails.status values
OrderStatuses == {"CREATED", "APPROVED", "COMPLETED", "FAILED", "CANCELLED"}

\* the poll writes the object: "Update status based on PayPal response"
PullWrites(paypalStatus) ==
    paypalStatus \in {"COMPLETED", "APPROVED", "FAILED", "CANCELLED"}

\* the payment object after "Update status based on PayPal response"
ApplyPull(payment, paypalStatus, t) ==
    IF paypalStatus = "COMPLETED" \/ paypalStatus = "APPROVED"
    THEN [payment EXCEPT !.status = "completed", !.captured_at = At(t),
                         !.paypalResponse = paypalStatus]
    ELSE IF paypalStatus = "FAILED" \/ paypalStatus = "CANCELLED"
    THEN [payment EXCEPT !.status = "failed", !.failed_at = At(t)]
    ELSE payment

\* GET /paypal-payment-status/:orderId from the await on, getPaypalOrder
\* answering: the object held since before the await is written and, when
\* written, set again under the key
PollResumeOk(i, paypalStatus) ==
    /\ i \in 1..Len(polls)
    /\ LET orderId == polls[i].orderId
           ref == polls[i].payment
           payment == ApplyPull(paypalObjs[ref], paypalStatus, now)
       IN  /\ paypalObjs' = [paypalObjs EXCEPT ![ref] = payment]
           /\ paypalPayments' = IF PullWrites(paypalStatus)
                                THEN MapSet(paypalPayments, orderId, ref)
                                ELSE paypalPayments
           /\ resp' = PaypalStatusResp(orderId, payment, TRUE, FALSE)
    /\ polls' = Remove(polls, i)
    /\ UNCHANGED << paymentStatus, mpesaKeys, captures, now, left >>

\* GET /paypal-payment-status/:orderId from the await on, getPaypalOrder
\* throwing: the inner catch logs, and the answer is built from the object
PollResumeFail(i) ==
    /\ i \in 1..Len(polls)
    /\ resp' = PaypalStatusResp(polls[i].orderId, paypalObjs[polls[i].payment],
                              TRUE, TRUE)
    /\ polls' = Remove(polls, i)
    /\ UNCHANGED << paymentStatus, mpesaKeys, paypalPayments, paypalObjs, captures, now, left >>

\* req.body of /paypal-webhook.  wellFormed: event.resource (and, for a capture
\* event, resource.supplementary_data.related_ids) exists; orderId is the id
\* the handler reads from it, NoId when that last property is missing.
EventTypes ==
    {"CHECKOUT.ORDER.APPROVED", "PAYMENT.CAPTURE.COMPLETED",
     "PAYMENT.CAPTURE.DENIED", "PAYMENT.CAPTURE.FAILED"}
FailureEvents == {"PAYMENT.CAPTURE.DENIED", "PAYMENT.CAPTURE.FAILED"}
Summaries == {Undef, "Payment capture denied"}

PaypalEvents ==
    { [event_type |-> ty, wellFormed |-> TRUE, orderId |-> k, captureId |-> "CAP1",
       summary |-> sm] :
         ty \in EventTypes, k \in Ids \cup {NoId}, sm \in Summaries }
    \cup { [event_type |-> ty, wellFormed |-> FALSE, orderId |-> NoId,
            captureId |-> Undef, summary |-> Undef] : ty \in EventTypes }
    \cup { [event_type |-> "CUSTOMER.DISPUTE.CREATED", wellFormed |-> FALSE,
            orderId |-> NoId, captureId |-> Undef, summary |-> Undef] }

\* reading the order id throws a TypeError
WebhookThrows(event) == event.event_type \in EventTypes /\ ~event.wellFormed

\* event.summary || 'Payment failed'
OrPaymentFailed(x) == IF x = Undef THEN "Payment failed" ELSE x

\* the payment object after the branch of the event's type
ApplyEvent(payment, event, t) ==
    IF event.event_type = "CHECKOUT.ORDER.APPROVED"
    THEN [payment EXCEPT !.status = "approved", !.approved_at = At(t)]
    ELSE IF event.event_type = "PAYMENT.CAPTURE.COMPLETED"
    THEN [payment EXCEPT !.status = "completed", !.captured_at = At(t),
                         !.captureId = event.captureId]
    ELSE IF event.event_type \in FailureEvents
    THEN [payment EXCEPT !.status = "failed", !.failed_at = At(t),
                         !.error = OrPaymentFailed(event.summary)]
    ELSE payment

\* WebhookStore applying the event to every payment object, not only the one
\* of the event's order
WebhookStore_Broadcast(pp, objs, event, t) ==
    IF ~WebhookThrows(event) /\ event.event_type \in EventTypes
       /\ event.orderId \in DOMAIN pp
    THEN [j \in 1..Len(objs) |-> ApplyEvent(objs[j], event, t)]
    ELSE objs

\* paypalObjs after the handler's try block
WebhookStore(pp, objs, event, t) ==
    IF ~WebhookThrows(event) /\ event.event_type \in EventTypes
       /\ event.orderId \in DOMAIN pp
    THEN [objs EXCEPT ![pp[event.orderId]] = ApplyEvent(@, event, t)]
    ELSE objs

\* the answer of /paypal-webhook: 200 OK from the try, 500 Error from the catch
WebhookResp(event) ==
    IF WebhookThrows(event)
    THEN [ep |-> "/paypal-webhook", code |-> 500, id |-> event.orderId, body |-> "Error"]
    ELSE [ep |-> "/paypal-webhook", code |-> 200, id |-> event.orderId, body |-> "OK"]

\* POST /paypal-webhook
PaypalWebhook(event) ==
    /\ Budget
    /\ paypalObjs' = WebhookStore(paypalPayments, paypalObjs, event, now)
    /\ resp' = WebhookResp(event)
    /\ left' = left - 1
    /\ UNCHANGED << paymentStatus, mpesaKeys, paypalPayments, polls, captures, now >>

\* ------------------------------------------------------------ shared

\* the keys of paypalPayments in insertion order: the order ids of the
\* objects in allocation order, each at its first occurrence
RECURSIVE PaypalKeysFrom(_, _)
PaypalKeysFrom(objs, seen) ==
    IF objs = << >> THEN << >>
    ELSE IF Head(objs).orderId \in seen THEN PaypalKeysFrom(Tail(objs), seen)
    ELSE << Head(objs).orderId >>
         \o PaypalKeysFrom(Tail(objs), seen \cup {Head(objs).orderId})

\* Array.from(paypalPayments.values())
PaypalValues(pp, objs) ==
    LET keys == PaypalKeysFrom(objs, {})
    IN  [j \in 1..Len(keys) |-> objs[pp[keys[j]]]]

\* Array.prototype.find with the predicate of /payment-status: the first
\* payment whose orderId or transactionId is the identifier, as a tuple of
\* one, or the empty tuple
FindPaypal(values, transactionId) ==
    LET hits == { j \in 1..Len(values) :
                    \/ values[j].orderId = transactionId
                    \/ values[j].transactionId = transactionId }
    IN  IF hits = {} THEN << >>
        ELSE << values[CHOOSE j \in hits : \A h \in hits : j <= h] >>

\* the switch on payment.status of an M-Pesa payment
MpesaViewStatus(payment) ==
    IF payment.status = "success" THEN "completed"
    ELSE IF payment.status = "failed" THEN "failed"
    ELSE "pending"

\* payment.error || '...'
MpesaViewMessage(payment) ==
    IF payment.status = "success" THEN << "M-Pesa payment completed successfully" >>
    ELSE IF payment.status = "failed"
         THEN IF payment.error = Undef \/ payment.error = ""
              THEN << "M-Pesa payment failed or was cancelled" >>
              ELSE << payment.error >>
    ELSE << "M-Pesa payment is pending" >>

\* PaymentStatusResp answering every identifier, found or not, as a pending
\* payment
PaymentStatusResp_Fabricate(ps, pp, objs, transactionId) ==
    [ep |-> "/payment-status", code |-> 200, id |-> transactionId,
     type |-> "mpesa", status |-> "pending", success |-> FALSE,
     message |-> << "M-Pesa payment is pending" >>,
     orderId |-> NoId, payment |-> << >>]

\* PaymentStatusResp looking in paypalPayments before paymentStatus
PaymentStatusResp_PaypalFirst(ps, pp, objs, transactionId) ==
    LET found == FindPaypal(PaypalValues(pp, objs), transactionId)
    IN  IF found # << >>
        THEN [ep |-> "/payment-status", code |-> 200, id |-> transactionId,
              type |-> "paypal", status |-> found[1].status,
              success |-> (found[1].status = "completed"),
              message |-> << "PayPal payment is ", found[1].status >>,
              orderId |-> found[1].orderId, payment |-> found]
        ELSE IF transactionId \in DOMAIN ps
        THEN [ep |-> "/payment-status", code |-> 200, id |-> transactionId,
              type |-> "mpesa", status |-> MpesaViewStatus(ps[transactionId]),
              success |-> (ps[transactionId].status = "success"),
              message |-> MpesaViewMessage(ps[transactionId]),
              orderId |-> NoId, payment |-> << ps[transactionId] >>]
        ELSE [ep |-> "/payment-status", code |-> 404, id |-> transactionId,
              type |-> "unknown", status |-> "not_found", success |-> FALSE,
              message |-> << "Transaction not found" >>,
              orderId |-> NoId, payment |-> << >>]

\* the answer of /payment-status
PaymentStatusResp(ps, pp, objs, transactionId) ==
    IF transactionId \in DOMAIN ps
    THEN LET payment == ps[transactionId]
         IN  [ep |-> "/payment-status", code |-> 200, id |-> transactionId,
              type |-> "mpesa", status |-> MpesaViewStatus(payment),
              success |-> (payment.status = "success"),
              message |-> MpesaViewMessage(payment),
              orderId |-> NoId, payment |-> << payment >>]
    ELSE LET found == FindPaypal(PaypalValues(pp, objs), transactionId)
         IN  IF found # << >>
             THEN [ep |-> "/payment-status", code |-> 200, id |-> transactionId,
                   type |-> "paypal", status |-> found[1].status,
                   success |-> (found[1].status = "completed"),
                   message |-> << "PayPal payment is ", found[1].status >>,
                   orderId |-> found[1].orderId, payment |-> found]
             ELSE [ep |-> "/payment-status", code |-> 404, id |-> transactionId,
                   type |-> "unknown", status |-> "not_found", success |-> FALSE,
                   message |-> << "Transaction not found" >>,
                   orderId |-> NoId, payment |-> << >>]

\* the identifiers a client polls with: provider ids and the transaction ids
\* handed out by /create-paypal-order
PollIds == Ids \cup { paypalObjs[i].transactionId : i \in 1..Len(paypalObjs) }

\* GET /payment-status/:transactionId: the handler reads and answers
PaymentStatusHandler(transactionId) ==
    /\ resp' = PaymentStatusResp(paymentStatus, paypalPayments, paypalObjs, transactionId)
    /\ UNCHANGED << paymentStatus, mpesaKeys, paypalPayments, paypalObjs, polls, captures, now >>

\* one GET /payment-status/:transactionId request arriving
PaymentStatusPoll(transactionId) ==
    /\ Budget
    /\ left' = left - 1
    /\ PaymentStatusHandler(transactionId)

\* ------------------------------------------------------------ reports

\* Array.from(paymentStatus.entries()).map(([id, data]) => ({id, type, ...data})):
\* the entries in the Map's order, each the stored object under data
MpesaEntries(ps, keys) ==
    [j \in 1..Len(keys) |-> [id |-> keys[j], type |-> "mpesa", data |-> ps[keys[j]]]]

\* Array.from(paypalPayments.entries()).map(([id, data]) => ({id, type, ...data}))
PaypalEntries(pp, objs) ==
    LET keys == PaypalKeysFrom(objs, {})
    IN  [j \in 1..Len(keys) |->
           [id |-> keys[j], type |-> "paypal", data |-> objs[pp[keys[j]]]]]

\* the answer of /payments: allPayments = [...mpesaPayments, ...paypalPaymentsList]
PaymentsResp(ps, keys, pp, objs) ==
    LET mpesaPayments == MpesaEntries(ps, keys)
        paypalPaymentsList == PaypalEntries(pp, objs)
    IN  [ep |-> "/payments", code |-> 200, id |-> NoId,
         total |-> Len(mpesaPayments) + Len(paypalPaymentsList),
         mpesa |-> Len(mpesaPayments),
         paypal |-> Len(paypalPaymentsList),
         payments |-> mpesaPayments \o paypalPaymentsList]

\* GET /payments
PaymentsList ==
    /\ Budget
    /\ resp' = PaymentsResp(paymentStatus, mpesaKeys, paypalPayments, paypalObjs)
    /\ left' = left - 1
    /\ UNCHANGED << paymentStatus, mpesaKeys, paypalPayments, paypalObjs, polls, captures, now >>

\* values.filter(p => statuses has p.status).length
CountStatus(values, statuses) ==
    Cardinality({ j \in 1..Len(values) : values[j].status \in statuses })

\* values.filter(p => p.status === status).reduce((sum, p) => sum + amount, 0),
\* the amount being the field amount (KES) or usdAmount (cents)
RECURSIVE SumMpesaAmount(_, _)
SumMpesaAmount(values, status) ==
    IF values = << >> THEN 0
    ELSE (IF Head(values).status = status THEN Head(values).amount ELSE 0)
         + SumMpesaAmount(Tail(values), status)

RECURSIVE SumUsdAmount(_, _)
SumUsdAmount(values, status) ==
    IF values = << >> THEN 0
    ELSE (IF Head(values).status = status THEN Head(values).usdAmount ELSE 0)
         + SumUsdAmount(Tail(values), status)

\* the answer of /stats
StatsResp(ps, keys, pp, objs) ==
    LET mpesaPayments == [j \in 1..Len(keys) |-> ps[keys[j]]]
        paypalPaymentsList == PaypalValues(pp, objs)
    IN  [ep |-> "/stats", code |-> 200, id |-> NoId,
         total |-> Len(mpesaPayments) + Len(paypalPaymentsList),
         mpesa |-> [total |-> Len(mpesaPayments),
                    successful |-> CountStatus(mpesaPayments, {"success"}),
                    failed |-> CountStatus(mpesaPayments, {"failed"}),
                    pending |-> CountStatus(mpesaPayments, {"pending"}),
                    totalAmount |-> SumMpesaAmount(mpesaPayments, "success")],
         paypal |-> [total |-> Len(paypalPaymentsList),
                     completed |-> CountStatus(paypalPaymentsList, {"completed"}),
                     failed |-> CountStatus(paypalPaymentsList, {"failed"}),
                     pending |-> CountStatus(paypalPaymentsList, {"created", "approved"}),
                     totalAmountUSD |-> SumUsdAmount(paypalPaymentsList, "completed")]]

\* GET /stats
Stats ==
    /\ Budget
    /\ resp' = StatsResp(paymentStatus, mpesaKeys, paypalPayments, paypalObjs)
    /\ left' = left - 1
    /\ UNCHANGED << paymentStatus, mpesaKeys, paypalPayments, paypalObjs, polls, captures, now >>

\* ------------------------------------------------------------ clock
Tick ==
    /\ now < MaxClock
    /\ now' = now + 1
    /\ UNCHANGED << paymentStatus, mpesaKeys, paypalPayments, paypalObjs, polls, captures, left, resp >>

\* ------------------------------------------------------------ specification
Init ==
    /\ paymentStatus = << >>
    /\ mpesaKeys = << >>
    /\ paypalPayments = << >>
    /\ paypalObjs = << >>
    /\ polls = << >>
    /\ captures = << >>
    /\ now = 0
    /\ left = MaxOps
    /\ resp = NoResp

Next ==
    \/ \E req \in MpesaRequests, data \in StkResponses : InitiatePaymentOk(req, data)
    \/ InitiatePaymentFail
    \/ \E cb \in StkCallbacks : MpesaCallback(cb)
    \/ \E req \in PaypalRequests, order \in PaypalOrders, t0 \in 0..MaxClock :
          CreatePaypalOrderOk(req, order, t0)
    \/ CreatePaypalOrderFail
    \/ \E orderId \in Ids \cup {NoId} : CaptureStart(orderId)
    \/ \E i \in 1..Len(captures), st \in CaptureStatuses : CaptureResumeOk(i, st)
    \/ \E i \in 1..Len(captures) : CaptureResumeFail(i)
    \/ \E orderId \in Ids : PollStart(orderId)
    \/ \E i \in 1..Len(polls), st \in OrderStatuses : PollResumeOk(i, st)
    \/ \E i \in 1..Len(polls) : PollResumeFail(i)
    \/ \E event \in PaypalEvents : PaypalWebhook(event)
    \/ \E id \in PollIds : PaymentStatusPoll(id)
    \/ PaymentsList
    \/ Stats
    \/ Tick

Spec == Init /\ [][Next]_vars

\* Initiations only: no callback, webhook, capture or poll is ever sent.
NextInitiations ==
    \/ \E req \in MpesaRequests, data \in StkResponses : InitiatePaymentOk(req, data)
    \/ InitiatePaymentFail
    \/ \E req \in PaypalRequests, order \in PaypalOrders, t0 \in 0..MaxClock :
          CreatePaypalOrderOk(req, order, t0)
    \/ CreatePaypalOrderFail
    \/ Tick

SpecInitiations == Init /\ [][NextInitiations]_vars

\* The same system with two more requests in a run.
InitDeep ==
    /\ paymentStatus = << >>
    /\ mpesaKeys = << >>
    /\ paypalPayments = << >>
    /\ paypalObjs = << >>
    /\ polls = << >>
    /\ captures = << >>
    /\ now = 0
    /\ left = MaxOps + 2
    /\ resp = NoResp

SpecDeep == InitDeep /\ [][Next]_vars

\* Initiations, provider notifications and unified lookups only, with one more
\* request in a run: two initiations can share an identifier across the
\* providers before the lookup.
InitLookup ==
    /\ paymentStatus = << >>
    /\ mpesaKeys = << >>
    /\ paypalPayments = << >>
    /\ paypalObjs = << >>
    /\ polls = << >>
    /\ captures = << >>
    /\ now = 0
    /\ left = MaxOps + 1
    /\ resp = NoResp

NextLookup ==
    \/ \E req \in MpesaRequests, data \in StkResponses : InitiatePaymentOk(req, data)
    \/ \E cb \in StkCallbacks : MpesaCallback(cb)
    \/ \E req \in PaypalRequests, order \in PaypalOrders, t0 \in 0..MaxClock :
          CreatePaypalOrderOk(req, order, t0)
    \/ \E event \in PaypalEvents : PaypalWebhook(event)
    \/ \E id \in PollIds : PaymentStatusPoll(id)

SpecLookup == InitLookup /\ [][NextLookup]_vars

\* Every handler, with one more request in a run and the clock standing still:
\* two records can be stored before a callback, webhook, capture or poll.
NextNoClock ==
    \/ \E req \in MpesaRequests, data \in StkResponses : InitiatePaymentOk(req, data)
    \/ InitiatePaymentFail
    \/ \E cb \in StkCallbacks : MpesaCallback(cb)
    \/ \E req \in PaypalRequests, order \in PaypalOrders, t0 \in 0..MaxClock :
          CreatePaypalOrderOk(req, order, t0)
    \/ CreatePaypalOrderFail
    \/ \E orderId \in Ids \cup {NoId} : CaptureStart(orderId)
    \/ \E i \in 1..Len(captures), st \in CaptureStatuses : CaptureResumeOk(i, st)
    \/ \E i \in 1..Len(captures) : CaptureResumeFail(i)
    \/ \E orderId \in Ids : PollStart(orderId)
    \/ \E i \in 1..Len(polls), st \in OrderStatuses : PollResumeOk(i, st)
    \/ \E i \in 1..Len(polls) : PollResumeFail(i)
    \/ \E event \in PaypalEvents : PaypalWebhook(event)
    \/ \E id \in PollIds : PaymentStatusPoll(id)
    \/ PaymentsList
    \/ Stats

SpecNoClock == InitLookup /\ [][NextNoClock]_vars

\* ------------------------------------------------------------ polling clients
\* No callback or webhook is ever delivered and the clients keep polling.  A
\* poll sent again is the same handler; it does not count against the requests
\* of the run.

\* the order statuses of a provider that has reached a terminal result
TerminalOrderStatuses == {"COMPLETED", "FAILED", "CANCELLED"}

\* GET /payment-status/:transactionId, sent again
Repoll(transactionId) ==
    /\ PaymentStatusHandler(transactionId)
    /\ UNCHANGED left

\* GET /paypal-payment-status/:orderId, sent again once the previous poll of
\* that order has been answered
RepollPaypal(orderId) ==
    /\ \A i \in 1..Len(polls) : polls[i].orderId # orderId
    /\ PaypalStatusHandler(orderId)
    /\ UNCHANGED left

\* getPaypalOrder answers a suspended poll of the order with a terminal status
ProviderAnswers(orderId) ==
    \E i \in 1..Len(polls), st \in TerminalOrderStatuses :
        polls[i].orderId = orderId /\ PollResumeOk(i, st)

NextPolling ==
    \/ \E req \in MpesaRequests, data \in StkResponses : InitiatePaymentOk(req, data)
    \/ \E req \in PaypalRequests, order \in PaypalOrders, t0 \in 0..MaxClock :
          CreatePaypalOrderOk(req, order, t0)
    \/ \E id \in Ids : Repoll(id)
    \/ \E orderId \in Ids : RepollPaypal(orderId)
    \/ \E orderId \in Ids : ProviderAnswers(orderId)
    \/ \E i \in 1..Len(polls) : PollResumeFail(i)

\* Every client keeps polling, and the provider, which may fail any number of
\* times, answers the polls of each order again and again.
SpecPolling ==
    /\ Init
    /\ [][NextPolling]_vars
    /\ \A id \in Ids : WF_vars(Repoll(id))
    /\ \A orderId \in Ids : WF_vars(RepollPaypal(orderId))
    /\ \A orderId \in Ids : SF_vars(ProviderAnswers(orderId))

\* ------------------------------------------------------------ properties

MpesaTerminal == {"success", "failed"}
PaypalTerminal == {"completed", "failed"}

\* C1: a callback for a CheckoutRequestID whose record is already terminal
\* (success or failed) leaves the stored status as the first terminal callback
\* set it: the record enters a terminal status once and is never overwritten.
C1_FirstTerminalWins ==
    [][\A cb \in StkCallbacks :
         ( /\ MpesaCallback(cb)
           /\ cb.CheckoutRequestID \in DOMAIN paymentStatus
           /\ paymentStatus[cb.CheckoutRequestID].status \in MpesaTerminal )
         => paymentStatus'[cb.CheckoutRequestID].status
              = paymentStatus[cb.CheckoutRequestID].status]_vars

\* C2: once a PayPal record is completed or failed, no webhook, capture or
\* status poll (any step that creates no order) changes its status.
C2_PaypalTerminalStable ==
    [][Len(paypalObjs') = Len(paypalObjs)
         => \A k \in DOMAIN paypalPayments \cap Ids :
              PaypalGet(paypalPayments, paypalObjs, k).status \in PaypalTerminal
              => /\ k \in DOMAIN paypalPayments'
                 /\ PaypalGet(paypalPayments', paypalObjs', k).status
                      = PaypalGet(paypalPayments, paypalObjs, k).status]_vars

\* C3: a status poll that resumes from the provider call with a failure result
\* and finds its record completed (the poll suspends only on a record that is
\* not completed, so the conflicting terminal write reached the store while it
\* was suspended) writes nothing: the record stays the one the first terminal
\* write produced, and is no mix of the two results.
C3_RaceFirstWriteWins ==
    [][\A i \in 1..Len(polls), st \in {"FAILED", "CANCELLED"} :
         ( /\ PollResumeOk(i, st)
           /\ paypalObjs[polls[i].payment].status = "completed" )
         => UNCHANGED << paypalPayments, paypalObjs >>]_vars

\* the callback cb says of the record what the record already holds: applying it
\* could change the terminal timestamp only
SameAsApplied(payment, cb) ==
    [ApplyStkResult(payment, cb, 0) EXCEPT !.completedAt = payment.completedAt] = payment

\* C4: replaying a callback on a terminal record that already holds what the
\* callback says leaves the whole record unchanged, completedAt included.
C4_ReplayIdempotent ==
    [][\A cb \in StkCallbacks :
         ( /\ MpesaCallback(cb)
           /\ cb.CheckoutRequestID \in DOMAIN paymentStatus
           /\ paymentStatus[cb.CheckoutRequestID].status \in MpesaTerminal
           /\ SameAsApplied(paymentStatus[cb.CheckoutRequestID], cb) )
         => paymentStatus' = paymentStatus]_vars

\* C5: a callback whose CheckoutRequestID, or a webhook whose order id, has no
\* stored record leaves both stores exactly as they were: no key added, no
\* record changed.  (A step that changes a store is no such delivery.)
C5_OrphanLeavesStores ==
    [][ \/ UNCHANGED stores
        \/ /\ \A cb \in StkCallbacks :
                ~(cb.CheckoutRequestID \notin DOMAIN paymentStatus /\ MpesaCallback(cb))
           /\ \A event \in PaypalEvents :
                ~(event.orderId \notin DOMAIN paypalPayments /\ PaypalWebhook(event)) ]_vars

\* an orphan callback has been acknowledged while the store holds a record
C5_Witness ==
    /\ resp.ep = "/mpesa-callback"
    /\ resp.id \in Ids
    /\ resp.id \notin DOMAIN paymentStatus
    /\ DOMAIN paymentStatus # {}

\* C6: every answer of /mpesa-callback and /paypal-webhook is a success
\* acknowledgment.
C6_AlwaysAcknowledged ==
    resp.ep \in {"/mpesa-callback", "/paypal-webhook"} => resp.code = 200

\* C7: an initiation whose provider-issued id already has a stored record
\* answers with an error and leaves the stores unchanged.
C7_DuplicateInitiationRejected ==
    [][ /\ \A req \in MpesaRequests, data \in StkResponses :
             (InitiatePaymentOk(req, data)
                /\ data.CheckoutRequestID \in DOMAIN paymentStatus)
             => (UNCHANGED stores /\ ~resp'.success)
        /\ \A req \in PaypalRequests, order \in PaypalOrders, t0 \in 0..MaxClock :
             (CreatePaypalOrderOk(req, order, t0) /\ order.id \in DOMAIN paypalPayments)
             => (UNCHANGED stores /\ ~resp'.success) ]_vars

\* every stored record is in the initial status of its provider
AllInitial ==
    /\ \A k \in DOMAIN paymentStatus : paymentStatus[k].status = "pending"
    /\ \A k \in DOMAIN paypalPayments :
         PaypalGet(paypalPayments, paypalObjs, k).status = "created"

\* C8: with initiations only, every stored record is in its initial status
\* (pending, created), and a successful initiation under an id not yet stored
\* adds exactly one record, under that id, and leaves every other record as it
\* was: after initiations with pairwise distinct ids the stores hold exactly one
\* record per id.
C8_OneInitialRecordPerId ==
    /\ []AllInitial
    /\ [][ /\ \A req \in MpesaRequests, data \in StkResponses :
                ( /\ InitiatePaymentOk(req, data)
                  /\ data.CheckoutRequestID # NoId
                  /\ data.CheckoutRequestID \notin DOMAIN paymentStatus )
                => /\ DOMAIN paymentStatus'
                        = DOMAIN paymentStatus \cup {data.CheckoutRequestID}
                   /\ \A k \in DOMAIN paymentStatus : paymentStatus'[k] = paymentStatus[k]
                   /\ UNCHANGED << paypalPayments, paypalObjs >>
           /\ \A req \in PaypalRequests, order \in PaypalOrders, t0 \in 0..MaxClock :
                ( /\ CreatePaypalOrderOk(req, order, t0)
                  /\ order.id # NoId
                  /\ order.id \notin DOMAIN paypalPayments )
                => /\ DOMAIN paypalPayments' = DOMAIN paypalPayments \cup {order.id}
                   /\ \A k \in DOMAIN paypalPayments :
                        PaypalGet(paypalPayments', paypalObjs', k)
                          = PaypalGet(paypalPayments, paypalObjs, k)
                   /\ UNCHANGED paymentStatus ]_vars

\* an M-Pesa initiation and a PayPal order, under distinct ids, are stored
C8_Witness ==
    /\ DOMAIN paymentStatus = { <<"id1">> }
    /\ DOMAIN paypalPayments = { <<"id2">> }
    /\ resp.ep = "/create-paypal-order"
    /\ resp.success

\* C9: a status poll asks the provider at most once, and not at all when the
\* stored status is terminal (completed or failed; success or failed).
C9_NoPullWhenTerminal ==
    [][ /\ \A orderId \in Ids :
             PollStart(orderId)
             => /\ Len(polls') <= Len(polls) + 1
                /\ ( /\ orderId \in DOMAIN paypalPayments
                     /\ PaypalGet(paypalPayments, paypalObjs, orderId).status
                          \in PaypalTerminal )
                   => polls' = polls
        /\ \A id \in PollIds : PaymentStatusPoll(id) => polls' = polls ]_vars

\* C10: when getPaypalOrder throws, the poll leaves the stores unchanged and
\* answers 200 with the status stored under the order id.
C10_PullErrorReturnsStored ==
    [][\A i \in 1..Len(polls) :
         PollResumeFail(i)
         => /\ UNCHANGED stores
            /\ resp'.code = 200
            /\ resp'.status
                 = PaypalGet(paypalPayments, paypalObjs, polls[i].orderId).status]_vars

\* the identifier is no key of either store, and no stored PayPal record has
\* it as its orderId or transactionId
MatchesNothing(id) ==
    /\ id \notin DOMAIN paymentStatus
    /\ id \notin DOMAIN paypalPayments
    /\ \A k \in DOMAIN paypalPayments :
         /\ PaypalGet(paypalPayments, paypalObjs, k).orderId # id
         /\ PaypalGet(paypalPayments, paypalObjs, k).transactionId # id

\* C11: a status poll (/payment-status or /paypal-payment-status) for an
\* identifier that matches no stored record answers 404 not_found with no
\* payment, leaves both stores unchanged and starts no provider call.
C11_UnknownIdNotFound ==
    [][ /\ \A id \in PollIds :
             (PaymentStatusPoll(id) /\ MatchesNothing(id))
             => /\ UNCHANGED stores
                /\ polls' = polls
                /\ resp'.code = 404
                /\ resp'.status = "not_found"
                /\ resp'.payment = << >>
        /\ \A orderId \in Ids :
             (PollStart(orderId) /\ MatchesNothing(orderId))
             => /\ UNCHANGED stores
                /\ polls' = polls
                /\ resp'.code = 404
                /\ resp'.status = "not_found"
                /\ resp'.payment = << >> ]_vars

\* /payment-status has answered not_found for an identifier while a record of
\* another identifier is stored
C11_Witness ==
    /\ resp.ep = "/payment-status"
    /\ resp.code = 404
    /\ MatchesNothing(resp.id)
    /\ DOMAIN paymentStatus \cup DOMAIN paypalPayments # {}

\* the record carries a terminal timestamp
MpesaStamped(payment) == payment.completedAt # NoTime
PaypalStamped(payment) == payment.captured_at # NoTime \/ payment.failed_at # NoTime

\* C12: in every state a record stored under a provider-issued id carries a
\* terminal timestamp (completedAt; captured_at or failed_at) exactly when its
\* status is terminal (success or failed; completed or failed).
C12_TerminalTimestampIffTerminal ==
    /\ \A k \in DOMAIN paymentStatus :
         MpesaStamped(paymentStatus[k]) <=> paymentStatus[k].status \in MpesaTerminal
    /\ \A k \in DOMAIN paypalPayments \cap Ids :
         PaypalStamped(PaypalGet(paypalPayments, paypalObjs, k))
           <=> PaypalGet(paypalPayments, paypalObjs, k).status \in PaypalTerminal

\* the status a /payment-status poll of the M-Pesa record k returns is
\* eventually terminal
MpesaPollConverges ==
    \A k \in Ids :
      [](k \in DOMAIN paymentStatus
           => <>(/\ resp.ep = "/payment-status"
                 /\ resp.id = k
                 /\ resp.status \in {"completed", "failed"}))

\* the status a /paypal-payment-status poll of the PayPal record k returns is
\* eventually terminal
PaypalPollConverges ==
    \A k \in Ids :
      [](k \in DOMAIN paypalPayments
           => <>(/\ resp.ep = "/paypal-payment-status"
                 /\ resp.id = k
                 /\ resp.status \in PaypalTerminal))

\* C13: with no callback or webhook delivered, the provider having reached a
\* terminal result and answering eventually, the status returned to a client
\* that keeps polling a stored record, M-Pesa or PayPal, is eventually terminal.
C13_PollingConverges == MpesaPollConverges /\ PaypalPollConverges

\* the positions, in the Map's order, of the stored PayPal records whose
\* orderId or transactionId is the identifier
PaypalHits(id) ==
    LET values == PaypalValues(paypalPayments, paypalObjs)
    IN  { j \in 1..Len(values) :
            values[j].orderId = id \/ values[j].transactionId = id }

\* C14: /payment-status answers with exactly one provider's record, tagged
\* with that provider: the M-Pesa record stored under the identifier if there
\* is one; otherwise the first PayPal record whose orderId or transactionId is
\* the identifier; otherwise not_found.  The record in the answer is a stored
\* record as it stands, never fields of two.
C14_UnifiedLookupOneProvider ==
    [][\A id \in PollIds :
         PaymentStatusPoll(id)
         => LET values == PaypalValues(paypalPayments, paypalObjs)
            IN  IF id \in DOMAIN paymentStatus
                THEN /\ resp'.code = 200
                     /\ resp'.type = "mpesa"
                     /\ resp'.payment = << paymentStatus[id] >>
                     /\ resp'.payment[1].type = "mpesa"
                     /\ resp'.orderId = NoId
                ELSE IF PaypalHits(id) # {}
                THEN /\ resp'.code = 200
                     /\ resp'.type = "paypal"
                     /\ \E j \in PaypalHits(id) :
                          /\ \A h \in PaypalHits(id) : j <= h
                          /\ resp'.payment = << values[j] >>
                          /\ resp'.orderId = values[j].orderId
                          /\ resp'.status = values[j].status
                     /\ resp'.payment[1].type = "paypal"
                ELSE /\ resp'.code = 404
                     /\ resp'.type = "unknown"
                     /\ resp'.payment = << >>]_vars

\* /payment-status has answered with the M-Pesa record for an identifier that
\* is also the order id of a stored PayPal record
C14_Witness ==
    /\ resp.ep = "/payment-status"
    /\ resp.type = "mpesa"
    /\ resp.id \in DOMAIN paymentStatus
    /\ resp.id \in DOMAIN paypalPayments

\* the provider-agnostic status values of the unified view
ViewStatuses == {"pending", "completed", "failed"}

\* C15: the status /payment-status reports for a stored record, of either
\* provider, is one of pending, completed, failed.
C15_ViewStatusAgnostic ==
    (resp.ep = "/payment-status" /\ resp.code = 200) => resp.status \in ViewStatuses

\* the finite state sets of the two providers
MpesaStatuses == {"pending", "success", "failed"}
PaypalStatuses == {"created", "approved", "completed", "failed"}

\* C16: in every state the status of a record stored under a provider-issued
\* id is in its provider's state set (pending, success, failed; created,
\* approved, completed, failed).
C16_StatusInStateSet ==
    /\ \A k \in DOMAIN paymentStatus : paymentStatus[k].status \in MpesaStatuses
    /\ \A k \in DOMAIN paypalPayments \cap Ids :
         PaypalGet(paypalPayments, paypalObjs, k).status \in PaypalStatuses

\* a step that applies a callback with a non-zero result code to a pending
\* record leaves it failed, with the callback's ResultDesc as its error
FailedCallbackApplied ==
    \A cb \in StkCallbacks :
      ( /\ MpesaCallback(cb)
        /\ cb.stk
        /\ cb.ResultCode # 0
        /\ cb.CheckoutRequestID \in DOMAIN paymentStatus
        /\ paymentStatus[cb.CheckoutRequestID].status = "pending" )
      => /\ paymentStatus'[cb.CheckoutRequestID].status = "failed"
         /\ paymentStatus'[cb.CheckoutRequestID].error = cb.ResultDesc

\* a /payment-status poll of a failed record answers failed, success false and
\* the record's error as the message, and writes nothing
FailedPollAnswer ==
    \A k \in DOMAIN paymentStatus :
      (PaymentStatusPoll(k) /\ paymentStatus[k].status = "failed")
      => /\ resp'.status = "failed"
         /\ ~resp'.success
         /\ resp'.message = << paymentStatus[k].error >>
         /\ UNCHANGED stores

\* a failed record is still failed, with the same error, after any step
FailedStays ==
    \A k \in DOMAIN paymentStatus :
      paymentStatus[k].status = "failed"
      => /\ k \in DOMAIN paymentStatus'
         /\ paymentStatus'[k].status = "failed"
         /\ paymentStatus'[k].error = paymentStatus[k].error

\* C17: a callback with a non-zero result code applied to a pending M-Pesa
\* record sets its status to failed and its error to the provider's result
\* description; from then on the record stays so, and every /payment-status
\* poll of it answers failed, success false, with that description as the
\* message, and leaves the record unchanged.
C17_FailedCallbackThenPolls ==
    [][FailedCallbackApplied /\ FailedPollAnswer /\ FailedStays]_vars

\* C18: no step removes a record: every key of paymentStatus and of
\* paypalPayments is still a key of that store after the step.
C18_NoRecordRemoved ==
    [][ /\ DOMAIN paymentStatus \subseteq DOMAIN paymentStatus'
        /\ DOMAIN paypalPayments \subseteq DOMAIN paypalPayments' ]_vars

\* a failure callback has been applied to a stored record, which is still
\* stored
C18_Witness ==
    /\ resp.ep = "/mpesa-callback"
    /\ resp.id \in DOMAIN paymentStatus
    /\ paymentStatus[resp.id].status = "failed"

\* C19: in every state each stored record's provider-issued identifier
\* (checkoutRequestID, orderId) is the key it is stored under; the key never
\* changing, no callback, webhook, capture or poll changes the identifier.
C19_IdentifierIsKey ==
    /\ \A k \in DOMAIN paymentStatus : paymentStatus[k].checkoutRequestID = k
    /\ \A k \in DOMAIN paypalPayments :
         PaypalGet(paypalPayments, paypalObjs, k).orderId = k

\* a success callback with metadata has been applied to a stored record
C19_Witness ==
    /\ resp.ep = "/mpesa-callback"
    /\ resp.id \in DOMAIN paymentStatus
    /\ paymentStatus[resp.id].status = "success"
    /\ paymentStatus[resp.id].mpesaReceiptNumber # Undef

\* the step is a provider report that the funds of an order were captured: a
\* PAYMENT.CAPTURE.COMPLETED event, an order status COMPLETED obtained by a
\* poll, or a capture answered COMPLETED
CaptureReported ==
    \/ \E event \in PaypalEvents :
         event.event_type = "PAYMENT.CAPTURE.COMPLETED" /\ PaypalWebhook(event)
    \/ \E i \in 1..Len(polls) : PollResumeOk(i, "COMPLETED")
    \/ \E i \in 1..Len(captures) : CaptureResumeOk(i, "COMPLETED")

\* C20: a stored PayPal record becomes completed only in a step in which the
\* provider reports the funds captured; a report that the order is APPROVED,
\* by webhook or by a poll's pull, does not make it completed.
C20_CompletedOnlyAfterCapture ==
    [][\A k \in DOMAIN paypalPayments \cap Ids :
         ( /\ k \in DOMAIN paypalPayments'
           /\ Len(paypalObjs') = Len(paypalObjs)
           /\ PaypalGet(paypalPayments, paypalObjs, k).status # "completed"
           /\ PaypalGet(paypalPayments', paypalObjs', k).status = "completed" )
         => CaptureReported]_vars

\* the Value of the payload's item of that name, as a tuple of one, or the
\* empty tuple when the payload carries none
RECURSIVE ItemValue(_, _)
ItemValue(items, name) ==
    IF items = << >> THEN << >>
    ELSE IF Head(items).Name = name THEN << Head(items).Value >>
    ELSE ItemValue(Tail(items), name)

\* C21: a callback applied to a record that is not yet terminal copies the
\* Amount and the MpesaReceiptNumber its payload carries into the record,
\* whatever its result code.
C21_CallbackFieldsCopied ==
    [][\A cb \in StkCallbacks :
         ( /\ MpesaCallback(cb)
           /\ cb.stk
           /\ cb.CheckoutRequestID \in DOMAIN paymentStatus
           /\ paymentStatus[cb.CheckoutRequestID].status \notin MpesaTerminal
           /\ cb.CallbackMetadata.present
           /\ cb.CallbackMetadata.isArray )
         => LET items == cb.CallbackMetadata.Item
                payment == paymentStatus'[cb.CheckoutRequestID]
            IN  /\ ItemValue(items, "Amount") # << >>
                     => << payment.amount >> = ItemValue(items, "Amount")
                /\ ItemValue(items, "MpesaReceiptNumber") # << >>
                     => << payment.mpesaReceiptNumber >>
                          = ItemValue(items, "MpesaReceiptNumber")]_vars

\* the keys of the stored records whose merchantRequestID is the callback's
SecondaryMatches(cb) ==
    { k \in DOMAIN paymentStatus :
        paymentStatus[k].merchantRequestID = cb.MerchantRequestID }

\* C22: a callback whose CheckoutRequestID is no key of paymentStatus but whose
\* MerchantRequestID is that of a stored record is applied to that record: the
\* record takes the status the callback's result code stands for.
C22_SecondaryIdFallback ==
    [][\A cb \in StkCallbacks :
         ( /\ MpesaCallback(cb)
           /\ cb.stk
           /\ cb.CheckoutRequestID \notin DOMAIN paymentStatus
           /\ SecondaryMatches(cb) # {} )
         => \E k \in SecondaryMatches(cb) :
              paymentStatus'[k].status
                = IF cb.ResultCode = 0 THEN "success" ELSE "failed"]_vars

\* the caller-supplied identifiers of every stored record are after the step
\* what they were before it
CallerIdsKept ==
    /\ \A k \in DOMAIN paymentStatus :
         /\ k \in DOMAIN paymentStatus'
         /\ paymentStatus'[k].userId = paymentStatus[k].userId
         /\ paymentStatus'[k].eventId = paymentStatus[k].eventId
         /\ paymentStatus'[k].accountReference = paymentStatus[k].accountReference
    /\ \A k \in DOMAIN paypalPayments :
         /\ k \in DOMAIN paypalPayments'
         /\ PaypalGet(paypalPayments', paypalObjs', k).userId
              = PaypalGet(paypalPayments, paypalObjs, k).userId
         /\ PaypalGet(paypalPayments', paypalObjs', k).eventId
              = PaypalGet(paypalPayments, paypalObjs, k).eventId

\* C23: every step that is no initiation (a callback, webhook, capture, status
\* poll or report) leaves the userId, eventId and accountReference of every
\* stored record as they were.
C23_CallerIdsUnchanged ==
    [][ \/ CallerIdsKept
        \/ \E req \in MpesaRequests, data \in StkResponses : InitiatePaymentOk(req, data)
        \/ \E req \in PaypalRequests, order \in PaypalOrders, t0 \in 0..MaxClock :
             CreatePaypalOrderOk(req, order, t0) ]_vars

\* every M-Pesa record stored under a key outside K is after the step what it
\* was before it; likewise for the PayPal records
MpesaOthersKept(K) ==
    \A k \in DOMAIN paymentStatus \ K :
      k \in DOMAIN paymentStatus' /\ paymentStatus'[k] = paymentStatus[k]
PaypalOthersKept(K) ==
    \A k \in DOMAIN paypalPayments \ K :
      /\ k \in DOMAIN paypalPayments'
      /\ PaypalGet(paypalPayments', paypalObjs', k)
           = PaypalGet(paypalPayments, paypalObjs, k)

\* C24: a callback, webhook, capture or status poll changes at most the record
\* stored under the identifier it names, in the store of its provider; every
\* record under another key, and every record of the other store, is unchanged.
C24_SingleKeyScope ==
    [][ /\ \A cb \in StkCallbacks :
             MpesaCallback(cb)
             => MpesaOthersKept({cb.CheckoutRequestID}) /\ PaypalOthersKept({})
        /\ \A event \in PaypalEvents :
             PaypalWebhook(event)
             => MpesaOthersKept({}) /\ PaypalOthersKept({event.orderId})
        /\ \A orderId \in Ids \cup {NoId} :
             CaptureStart(orderId) => MpesaOthersKept({}) /\ PaypalOthersKept({orderId})
        /\ \A i \in 1..Len(captures) :
             ((\E st \in CaptureStatuses : CaptureResumeOk(i, st)) \/ CaptureResumeFail(i))
             => MpesaOthersKept({}) /\ PaypalOthersKept({captures[i].orderId})
        /\ \A orderId \in Ids :
             PollStart(orderId) => MpesaOthersKept({}) /\ PaypalOthersKept({orderId})
        /\ \A i \in 1..Len(polls) :
             ((\E st \in OrderStatuses : PollResumeOk(i, st)) \/ PollResumeFail(i))
             => MpesaOthersKept({}) /\ PaypalOthersKept({polls[i].orderId})
        /\ \A id \in PollIds :
             PaymentStatusPoll(id) => MpesaOthersKept({}) /\ PaypalOthersKept({}) ]_vars

\* a webhook has completed one of two stored PayPal records
C24_Witness ==
    /\ resp.ep = "/paypal-webhook"
    /\ resp.id \in DOMAIN paypalPayments
    /\ PaypalGet(paypalPayments, paypalObjs, resp.id).status = "completed"
    /\ \E k \in DOMAIN paypalPayments \ {resp.id} :
         PaypalGet(paypalPayments, paypalObjs, k).status = "created"

\* the creation time of a listed record: initiatedAt (M-Pesa), created_at
\* (PayPal)
CreatedAt(entry) ==
    IF entry.type = "mpesa" THEN entry.data.initiatedAt[1] ELSE entry.data.created_at[1]

\* C25: /payments lists the records newest first: no record is listed before a
\* record created later, across both providers.
C25_PaymentsNewestFirst ==
    resp.ep = "/payments"
    => \A i \in 1..Len(resp.payments), j \in 1..Len(resp.payments) :
         i < j => CreatedAt(resp.payments[i]) >= CreatedAt(resp.payments[j])

\* a client can poll the identifier: it is one, and /payment-status finds a
\* record for it in the stores ps, pp, objs
Pollable(ps, pp, objs, transactionId) ==
    /\ transactionId # NoId
    /\ PaymentStatusResp(ps, pp, objs, transactionId).code = 200

\* the step is an initiation request answered
IsInitiation ==
    \/ \E req \in MpesaRequests, data \in StkResponses : InitiatePaymentOk(req, data)
    \/ InitiatePaymentFail
    \/ \E req \in PaypalRequests, order \in PaypalOrders, t0 \in 0..MaxClock :
         CreatePaypalOrderOk(req, order, t0)
    \/ CreatePaypalOrderFail

\* C26: an initiation that answers success has stored a record the client can
\* poll with the transactionId of the answer, and an initiation that answers
\* an error leaves both stores unchanged.
C26_SuccessIffStored ==
    [][IsInitiation
         => /\ resp'.success
                 => Pollable(paymentStatus', paypalPayments', paypalObjs',
                             resp'.transactionId)
            /\ ~resp'.success => UNCHANGED stores]_vars

\* the counters /stats would report in the current state
StatsNow == StatsResp(paymentStatus, mpesaKeys, paypalPayments, paypalObjs)

\* C27: the counters of /stats partition the records of each provider: the
\* M-Pesa total is successful + failed + pending, and the PayPal total is
\* completed + failed + pending.
C27_StatsPartition ==
    /\ StatsNow.mpesa.total
         = StatsNow.mpesa.successful + StatsNow.mpesa.failed + StatsNow.mpesa.pending
    /\ StatsNow.paypal.total
         = StatsNow.paypal.completed + StatsNow.paypal.failed + StatsNow.paypal.pending
====
